---- MODULE Spec2Model ----
(***************************************************************************)
(* Model of the sensors-oracle pallet                                      *)
(* (offchain-workers/.../pallets/sensors-oracle/src): the authority        *)
(* registry (Authorities), the sensor store (Sensors), the three           *)
(* dispatchable calls and the off-chain worker that fetches, parses and    *)
(* submits sensor data.                                                    *)
(*                                                                         *)
(* Names follow the source.  The specification document's error names map  *)
(* to the code's as: NotAuthorized = BadOrigin (ensure_root/ensure_signed),*)
(* CapacityExceeded = TooManyAuthorities.                                  *)
(***************************************************************************)
EXTENDS Naturals, Sequences, FiniteSets, TLC

\* ------------------------------------------------------------------ bounds

\* Config::MaxAuthorities, scaled down (TestDefaultConfig sets 64).
MaxAuthorities == 2

\* Longest batch a directly submitted update_sensors_data extrinsic carries.
MaxBatch == 2

\* Most transactions waiting in the transaction pool at once.
MaxPool == 1

\* ------------------------------------------------------------- value types

AccountId == {"alice", "bob", "carol"}

NoAccount == "-"

Root == [kind |-> "Root", who |-> NoAccount]

NoOrigin == [kind |-> "None", who |-> NoAccount]

Signed(who) == [kind |-> "Signed", who |-> who]

\* The accounts that sign extrinsics; the third account is only ever the
\* subject of add_authority and remove_authority.
Signers == {"alice", "bob"}

\* The origins an extrinsic is dispatched under.
Origins == {Root} \cup {Signed(a) : a \in Signers}

\* enum SensorType, by discriminant.
Humidity == 0
Temperature == 1
Pressure == 2
Digital == 3

SensorType == {Humidity, Temperature, Pressure, Digital}

\* The derived Serialize of SensorType: a unit variant is written as its name.
variant_name(type_) ==
    CASE type_ = Humidity -> "Humidity"
      [] type_ = Temperature -> "Temperature"
      [] type_ = Pressure -> "Pressure"
      [] type_ = Digital -> "Digital"

SensorIdOf == {1, 2}

Number(x) == [tag |-> "Number", num |-> x, flag |-> FALSE]

Bool(b) == [tag |-> "Bool", num |-> 0, flag |-> b]

Geolocation(lat, lon) == [lat |-> lat, lon |-> lon]

SensorData(id, type_, geolocation, value, timestamp) ==
    [id |-> id, type_ |-> type_, geolocation |-> geolocation,
     value |-> value, timestamp |-> timestamp]

\* Readings a directly submitted extrinsic draws its batch from: two
\* readings of the same sensor and kind, the second with the smaller
\* timestamp.
Readings ==
    { SensorData(1, Temperature, Geolocation(10, 20), Number(42), 1000),
      SensorData(1, Temperature, Geolocation(10, 20), Number(7), 999) }

RECURSIVE SeqsUpTo(_, _)
SeqsUpTo(S, n) ==
    IF n = 0 THEN {<<>>}
    ELSE LET shorter == SeqsUpTo(S, n - 1)
         IN  shorter \cup { Append(q, x) : q \in shorter, x \in S }

Batches == SeqsUpTo(Readings, MaxBatch)

\* Result names of a dispatch.
Ok == "Ok"
BadOrigin == "BadOrigin"
NotAuthority == "NotAuthority"
AlreadyAuthority == "AlreadyAuthority"
TooManyAuthorities == "TooManyAuthorities"
DeserializeError == "DeserializeError"

AuthorityAdded(authority) == [name |-> "AuthorityAdded", authority |-> authority]

AuthorityRemoved(authority) == [name |-> "AuthorityRemoved", authority |-> authority]

\* Declared in events.rs; the Event enum of lib.rs has no such variant.
SensorDataAdded(id, type_) == [name |-> "SensorDataAdded", id |-> id, type_ |-> type_]

\* ------------------------------------------------------------------- state

VARIABLES
    authorities,  \* Authorities: BoundedVec<AccountId, MaxAuthorities>
    sensors,      \* Sensors: (id, type_) -> Option<SensorData>, <<>> is None
    emitted,      \* events deposited by the latest step
    pool,         \* signed update_sensors_data transactions not yet applied
    ocw,          \* each off-chain worker run: "idle" or "fetching"
    last,         \* the operation the latest step ran, its inputs and result
    before        \* storage, pool and worker runs as the latest step found them

vars == <<authorities, sensors, emitted, pool, ocw, last, before>>

Keys == SensorIdOf \X SensorType

NoArg == <<>>

Call(op, origin, arg, result) ==
    [op |-> op, origin |-> origin, arg |-> arg, result |-> result]

\* The pallet's storage, and the node's transaction pool and off-chain
\* worker runs beside it.
Storage == [authorities |-> authorities, sensors |-> sensors, pool |-> pool, ocw |-> ocw]

\* ----------------------------------------------------------------- helpers

Range(s) == { s[i] : i \in 1..Len(s) }

contains(v, x) == x \in Range(v)

\* Mutant of is_authority: any registry with an entry admits every caller.
is_authority_nonempty(who) == authorities # <<>>

is_authority(who) == contains(authorities, who)

\* Mutant of ensure_root: a registered authority passes for root.
ensure_root_or_authority(origin) ==
    origin.kind = "Root" \/ (origin.kind = "Signed" /\ contains(authorities, origin.who))

ensure_root(origin) == origin.kind = "Root"

ensure_signed(origin) == origin.kind = "Signed"

\* Mutant of try_push_ok: the bound is tested off by one.
try_push_ok_inclusive(v) == Len(v) <= MaxAuthorities

\* BoundedVec::try_push: TRUE when the element fits.
try_push_ok(v) == Len(v) < MaxAuthorities

\* Iterator::position: the first index holding x, 0 when there is none.
position(v, x) ==
    IF contains(v, x) THEN CHOOSE i \in 1..Len(v) :
                               /\ v[i] = x
                               /\ \A j \in 1..(i - 1) : v[j] # x
    ELSE 0

\* Mutant of swap_remove: the last element is copied over index but not popped.
swap_remove_no_pop(v, index) == [v EXCEPT ![index] = v[Len(v)]]

\* Mutant of swap_remove: the last element is popped whatever the index.
swap_remove_pop_last(v, index) == SubSeq(v, 1, Len(v) - 1)

\* Vec::swap_remove: the element at index is replaced by the last one.
swap_remove(v, index) ==
    LET n == Len(v)
        moved == [v EXCEPT ![index] = v[n]]
    IN  SubSeq(moved, 1, n - 1)

\* Mutant of add_sensor_data: an occupied entry is kept (first write wins).
add_sensor_data_if_absent(store, sensor) ==
    IF store[<<sensor.id, sensor.type_>>] = <<>>
    THEN [store EXCEPT ![<<sensor.id, sensor.type_>>] = <<sensor>>]
    ELSE store

\* Mutant of add_sensor_data: the record is appended to the entry's history.
add_sensor_data_append(store, sensor) ==
    [store EXCEPT ![<<sensor.id, sensor.type_>>] = Append(@, sensor)]

\* Mutant of add_sensor_data: the sensor's entries of other kinds are removed
\* before the insert (one record per sensor id).
add_sensor_data_one_per_id(store, sensor) ==
    [k \in DOMAIN store |->
        IF k = <<sensor.id, sensor.type_>> THEN <<sensor>>
        ELSE IF k[1] = sensor.id THEN <<>>
        ELSE store[k]]

\* Mutant of add_sensor_data: a stored record with a later timestamp is kept.
add_sensor_data_if_newer(store, sensor) ==
    LET k == <<sensor.id, sensor.type_>>
    IN  IF store[k] # <<>> /\ store[k][1].timestamp > sensor.timestamp
        THEN store
        ELSE [store EXCEPT ![k] = <<sensor>>]

\* Mutant of add_sensor_data: the record is filed under the first kind.
add_sensor_data_first_kind(store, sensor) ==
    [store EXCEPT ![<<sensor.id, Humidity>>] = <<sensor>>]

\* StorageDoubleMap::insert under (sensor.id, sensor.type_).
add_sensor_data(store, sensor) ==
    [store EXCEPT ![<<sensor.id, sensor.type_>>] = <<sensor>>]

\* for sensor in updated_data { add_sensor_data(sensor) }
RECURSIVE apply_batch(_, _)
apply_batch(store, updated_data) ==
    IF updated_data = <<>> THEN store
    ELSE apply_batch(add_sensor_data(store, Head(updated_data)), Tail(updated_data))

\* ------------------------------------------------------- off-chain worker

\* The off-chain worker invocations that may be running.
Workers == {"w1"}

\* The characters of a string field, one per element.
Digits == {"0", "1", "2", "3", "4", "5", "6", "7", "8", "9"}

DigitVal(c) ==
    CASE c = "0" -> 0 [] c = "1" -> 1 [] c = "2" -> 2 [] c = "3" -> 3
      [] c = "4" -> 4 [] c = "5" -> 5 [] c = "6" -> 6 [] c = "7" -> 7
      [] c = "8" -> 8 [] c = "9" -> 9

\* u32::MAX, 4294967295, digit by digit.
U32MaxDigits == <<"4", "2", "9", "4", "9", "6", "7", "2", "9", "5">>

Err == <<>>

Some(x) == <<x>>

RECURSIVE strip_zeros(_)
strip_zeros(s) ==
    IF Len(s) > 1 /\ Head(s) = "0" THEN strip_zeros(Tail(s)) ELSE s

\* d > m for digit sequences of the same length.
RECURSIVE digits_greater(_, _)
digits_greater(d, m) ==
    IF d = <<>> THEN FALSE
    ELSE IF DigitVal(Head(d)) # DigitVal(Head(m))
         THEN DigitVal(Head(d)) > DigitVal(Head(m))
    ELSE digits_greater(Tail(d), Tail(m))

\* The checked multiply-and-add of u32's FromStr overflows.
overflows_u32(s) ==
    LET d == strip_zeros(s)
    IN  \/ Len(d) > Len(U32MaxDigits)
        \/ Len(d) = Len(U32MaxDigits) /\ digits_greater(d, U32MaxDigits)

RECURSIVE digits_value(_, _)
digits_value(s, acc) ==
    IF s = <<>> THEN acc ELSE digits_value(Tail(s), acc * 10 + DigitVal(Head(s)))

\* str::parse::<u32>: an optional "+", then one or more digits, no overflow.
parse_u32(s) ==
    LET digits == IF s # <<>> /\ Head(s) = "+" THEN Tail(s) ELSE s
    IN  IF digits = <<>> THEN Err
        ELSE IF \E i \in 1..Len(digits) : digits[i] \notin Digits THEN Err
        ELSE IF overflows_u32(digits) THEN Err
        ELSE Some(digits_value(digits, 0))

\* Mutant of de_string_to_sensor_type: an unknown name falls back to Humidity.
de_string_to_sensor_type_default(s) ==
    CASE s = "Humidity" -> Some(Humidity)
      [] s = "Pressure" -> Some(Pressure)
      [] s = "Temperature" -> Some(Temperature)
      [] s = "Digital" -> Some(Digital)
      [] OTHER -> Some(Humidity)

de_string_to_sensor_type(s) ==
    CASE s = "Humidity" -> Some(Humidity)
      [] s = "Pressure" -> Some(Pressure)
      [] s = "Temperature" -> Some(Temperature)
      [] s = "Digital" -> Some(Digital)
      [] OTHER -> Err

de_string_to_sensor_value(s) ==
    CASE s = <<"t", "r", "u", "e">> -> Some(Bool(TRUE))
      [] s = <<"f", "a", "l", "s", "e">> -> Some(Bool(FALSE))
      [] OTHER -> IF parse_u32(s) # Err THEN Some(Number(parse_u32(s)[1]))
                  ELSE Some(Number(0))

\* One object of the response's JSON array.  typeKey is the key the kind is
\* given under; value is the characters of the value string.
RawSensor(id, typeKey, type, geolocation, value, timestamp) ==
    [id |-> id, typeKey |-> typeKey, type |-> type, geolocation |-> geolocation,
     value |-> value, timestamp |-> timestamp]

\* The derived Deserialize of SensorData: the fields are looked up under the
\* struct's field names (id, type_, geolocation, value, timestamp).
deserialize_sensor_data(o) ==
    IF o.typeKey # "type_" THEN Err
    ELSE IF de_string_to_sensor_type(o.type) = Err THEN Err
    ELSE IF de_string_to_sensor_value(o.value) = Err THEN Err
    ELSE Some(SensorData(o.id, de_string_to_sensor_type(o.type)[1], o.geolocation,
                         de_string_to_sensor_value(o.value)[1], o.timestamp))

\* serde_json::from_slice::<Vec<SensorData>>: every element or nothing.
RECURSIVE deserialize_items(_)
deserialize_items(items) ==
    IF items = <<>> THEN Some(<<>>)
    ELSE LET first == deserialize_sensor_data(Head(items))
             rest == deserialize_items(Tail(items))
         IN  IF first = Err \/ rest = Err THEN Err
             ELSE Some(<<first[1]>> \o rest[1])

Body(utf8, json, items) == [utf8 |-> utf8, json |-> json, items |-> items]

from_slice(body) == IF ~body.json THEN Err ELSE deserialize_items(body.items)

Geo == Geolocation(10, 20)

\* [{"id":1,"type":"Temperature","geolocation":{"lat":10,"lon":20},
\*   "value":"42","timestamp":1000}]
TypeKeyBody == Body(TRUE, TRUE, <<RawSensor(1, "type", "Temperature", Geo, <<"4", "2">>, 1000)>>)

\* The same with the kind under the key "type_".
GoodBody == Body(TRUE, TRUE, <<RawSensor(1, "type_", "Temperature", Geo, <<"4", "2">>, 1000)>>)

\* The bodies a 200 response may carry.  One of them parses: a number, a
\* boolean and a value string that is neither.
Bodies ==
    { TypeKeyBody,
      Body(TRUE, TRUE, <<RawSensor(1, "type_", "Temperature", Geo, <<"4", "2">>, 1000),
                         RawSensor(2, "type_", "Digital", Geo, <<"t", "r", "u", "e">>, 1000),
                         RawSensor(1, "type_", "Humidity", Geo, <<"a", "b", "c">>, 1001)>>),
      Body(TRUE, TRUE, <<RawSensor(1, "type_", "Foo", Geo, <<"4", "2">>, 1000)>>),
      Body(TRUE, FALSE, <<>>),
      Body(FALSE, FALSE, <<>>) }

\* What try_wait hands back: the deadline passing, a transport error of the
\* host, or a response with its status code and body.
HttpResponse(code, body) == [outcome |-> "Response", code |-> code, body |-> body]

NoBody == Body(TRUE, FALSE, <<>>)

Replies ==
    { [outcome |-> "Deadline", code |-> 0, body |-> NoBody],
      [outcome |-> "IoError", code |-> 0, body |-> NoBody] }
    \cup { HttpResponse(500, b) : b \in {GoodBody} }
    \cup { HttpResponse(200, b) : b \in Bodies }

\* http::Error, as get_sensors_data returns it.
IoError == "IoError"
DeadlineReached == "DeadlineReached"
Unknown == "Unknown"

\* Mutant of get_sensors_data_result: the status code is not looked at.
get_sensors_data_result_any_status(reply, account, submitted) ==
    IF reply.outcome = "Deadline" THEN DeadlineReached
    ELSE IF reply.outcome = "IoError" THEN IoError
    ELSE IF ~reply.body.utf8 THEN Unknown
    ELSE IF from_slice(reply.body) = Err THEN DeadlineReached
    ELSE IF account = NoAccount THEN DeadlineReached
    ELSE IF ~submitted THEN DeadlineReached
    ELSE Ok

\* get_sensors_data from try_wait on: the result, given the reply, the
\* account the keystore offers the signer (NoAccount: none) and whether the
\* pool takes the transaction.
get_sensors_data_result(reply, account, submitted) ==
    IF reply.outcome = "Deadline" THEN DeadlineReached
    ELSE IF reply.outcome = "IoError" THEN IoError
    ELSE IF reply.code # 200 THEN Unknown
    ELSE IF ~reply.body.utf8 THEN Unknown
    ELSE IF from_slice(reply.body) = Err THEN DeadlineReached
    ELSE IF account = NoAccount THEN DeadlineReached
    ELSE IF ~submitted THEN DeadlineReached
    ELSE Ok

\* A response came back and its body is JSON text.
has_json_body(reply) ==
    /\ reply.outcome = "Response"
    /\ reply.body.utf8
    /\ reply.body.json

\* The reply gets get_sensors_data as far as serde_json::from_slice.
reaches_parser(reply) ==
    /\ reply.outcome = "Response"
    /\ reply.code = 200
    /\ reply.body.utf8

\* The reply gets get_sensors_data as far as the signer.
parses(reply) == reaches_parser(reply) /\ from_slice(reply.body) # Err

\* The accounts of KEY_TYPE the node's keystore may hold.
Keystore == {"alice"}

\* Signer::any_account(): the keystore's account, if it holds one.
Signer(account) == IF account = NoAccount THEN NoOrigin ELSE Signed(account)

\* A signed update_sensors_data extrinsic in the pool.  authorized is not
\* part of the extrinsic: it remembers whether the signer was a registered
\* authority when send_signed_transaction signed it.
Transaction(signer, updated_data, authorized) ==
    [signer |-> signer, updated_data |-> updated_data, authorized |-> authorized]

\* ------------------------------------------------------------ dispatchables

\* Mutant of update_sensors_data_result: the authority check is left out.
update_sensors_data_result_unchecked(origin) ==
    IF ~ensure_signed(origin) THEN BadOrigin ELSE Ok

update_sensors_data_result(origin) ==
    IF ~ensure_signed(origin) THEN BadOrigin
    ELSE IF ~is_authority(origin.who) THEN NotAuthority
    ELSE Ok

update_sensors_data(origin, updated_data) ==
    LET result == update_sensors_data_result(origin)
    IN  /\ sensors' = IF result = Ok THEN apply_batch(sensors, updated_data)
                      ELSE sensors
        /\ emitted' = <<>>
        /\ last' = Call("update_sensors_data", origin, updated_data, result)
        /\ before' = Storage
        /\ UNCHANGED authorities

\* Mutant of add_authority_result: the push is tried before the membership test.
add_authority_result_push_first(origin, authority) ==
    IF ~ensure_root(origin) THEN BadOrigin
    ELSE IF ~try_push_ok(authorities) THEN TooManyAuthorities
    ELSE IF is_authority(authority) THEN AlreadyAuthority
    ELSE Ok

add_authority_result(origin, authority) ==
    IF ~ensure_root(origin) THEN BadOrigin
    ELSE IF is_authority(authority) THEN AlreadyAuthority
    ELSE IF ~try_push_ok(authorities) THEN TooManyAuthorities
    ELSE Ok

add_authority(origin, authority) ==
    LET result == add_authority_result(origin, authority)
    IN  /\ authorities' = IF result = Ok THEN Append(authorities, authority)
                          ELSE authorities
        /\ emitted' = IF result = Ok THEN <<AuthorityAdded(authority)>> ELSE <<>>
        /\ last' = Call("add_authority", origin, authority, result)
        /\ before' = Storage
        /\ UNCHANGED sensors

remove_authority_result(origin, authority) ==
    IF ~ensure_root(origin) THEN BadOrigin
    ELSE IF ~is_authority(authority) THEN NotAuthority
    ELSE IF position(authorities, authority) = 0 THEN NotAuthority
    ELSE Ok

\* The event deposited by a successful remove_authority (lib.rs:422, calls.rs:76).
remove_authority_event(authority) == AuthorityAdded(authority)

\* Mutant of remove_authority: the event is deposited before the checks.
remove_authority_event_first(origin, authority) ==
    LET result == remove_authority_result(origin, authority)
    IN  /\ authorities' = IF result = Ok
                          THEN swap_remove(authorities, position(authorities, authority))
                          ELSE authorities
        /\ emitted' = <<remove_authority_event(authority)>>
        /\ last' = Call("remove_authority", origin, authority, result)
        /\ before' = Storage
        /\ UNCHANGED sensors

\* Mutant of remove_authority: a removal also clears the sensor store.
remove_authority_clear_sensors(origin, authority) ==
    LET result == remove_authority_result(origin, authority)
    IN  /\ authorities' = IF result = Ok
                          THEN swap_remove(authorities, position(authorities, authority))
                          ELSE authorities
        /\ emitted' = IF result = Ok THEN <<remove_authority_event(authority)>> ELSE <<>>
        /\ last' = Call("remove_authority", origin, authority, result)
        /\ before' = Storage
        /\ sensors' = IF result = Ok THEN [k \in Keys |-> <<>>] ELSE sensors

remove_authority(origin, authority) ==
    LET result == remove_authority_result(origin, authority)
    IN  /\ authorities' = IF result = Ok
                          THEN swap_remove(authorities, position(authorities, authority))
                          ELSE authorities
        /\ emitted' = IF result = Ok THEN <<remove_authority_event(authority)>> ELSE <<>>
        /\ last' = Call("remove_authority", origin, authority, result)
        /\ before' = Storage
        /\ UNCHANGED sensors

\* ----------------------------------------------------------------- actions

\* An update_sensors_data extrinsic submitted directly, under any origin.
UpdateSensorsData ==
    \E origin \in Origins, updated_data \in Batches :
        /\ update_sensors_data(origin, updated_data)
        /\ UNCHANGED <<pool, ocw>>

AddAuthority ==
    \E origin \in Origins, authority \in AccountId :
        /\ add_authority(origin, authority)
        /\ UNCHANGED <<pool, ocw>>

RemoveAuthority ==
    \E origin \in Origins, authority \in AccountId :
        /\ remove_authority(origin, authority)
        /\ UNCHANGED <<pool, ocw>>

\* offchain_worker at a block import: get_sensors_data up to request.send().
OffchainWorkerStart ==
    \E w \in Workers, sent \in BOOLEAN :
        /\ ocw[w] = "idle"
        /\ ocw' = IF sent THEN [ocw EXCEPT ![w] = "fetching"] ELSE ocw
        /\ last' = Call("offchain_worker_start", NoOrigin, NoArg,
                        IF sent THEN Ok ELSE IoError)
        /\ before' = Storage
        /\ emitted' = <<>>
        /\ UNCHANGED <<authorities, sensors, pool>>

\* Mutant of OffchainWorkerFinish: a run that fails sends the request again.
OffchainWorkerFinish_retry ==
    \E w \in Workers, reply \in Replies :
        \E account \in IF has_json_body(reply) THEN Keystore \cup {NoAccount}
                        ELSE {NoAccount},
           accepted \in IF has_json_body(reply) THEN BOOLEAN ELSE {FALSE} :
            LET submitted == accepted /\ Len(pool) < MaxPool
                result == get_sensors_data_result(reply, account, submitted)
            IN  /\ ocw[w] = "fetching"
                /\ ocw' = IF result = Ok THEN [ocw EXCEPT ![w] = "idle"] ELSE ocw
                /\ pool' = IF result = Ok
                           THEN Append(pool, Transaction(account, from_slice(reply.body)[1],
                                                   contains(authorities, account)))
                           ELSE pool
                /\ last' = Call("offchain_worker", Signer(account),
                                [reply |-> reply, accepted |-> accepted], result)
                /\ before' = Storage
                /\ emitted' = <<>>
                /\ UNCHANGED <<authorities, sensors>>

\* get_sensors_data from try_wait to its return.  account is what the
\* keystore holds for the signer (NoAccount: nothing) and accepted whether the
\* pool would take a transaction; both are recorded with the reply, and
\* both are left out where no response with a JSON body came back.
OffchainWorkerFinish ==
    \E w \in Workers, reply \in Replies :
        \E account \in IF has_json_body(reply) THEN Keystore \cup {NoAccount}
                        ELSE {NoAccount},
           accepted \in IF has_json_body(reply) THEN BOOLEAN ELSE {FALSE} :
            LET submitted == accepted /\ Len(pool) < MaxPool
                result == get_sensors_data_result(reply, account, submitted)
            IN  /\ ocw[w] = "fetching"
                /\ ocw' = [ocw EXCEPT ![w] = "idle"]
                /\ pool' = IF result = Ok
                           THEN Append(pool, Transaction(account, from_slice(reply.body)[1],
                                                   contains(authorities, account)))
                           ELSE pool
                /\ last' = Call("offchain_worker", Signer(account),
                                [reply |-> reply, accepted |-> accepted], result)
                /\ before' = Storage
                /\ emitted' = <<>>
                /\ UNCHANGED <<authorities, sensors>>

\* Mutant of ApplyTransaction: the batch is admitted on the signer's standing
\* at the time of signing.
ApplyTransaction_as_signed ==
    /\ pool # <<>>
    /\ LET tx == Head(pool)
           result == IF tx.authorized THEN Ok ELSE NotAuthority
       IN  /\ sensors' = IF result = Ok THEN apply_batch(sensors, tx.updated_data)
                         ELSE sensors
           /\ emitted' = <<>>
           /\ last' = Call("update_sensors_data", Signed(tx.signer), tx.updated_data, result)
           /\ before' = Storage
    /\ pool' = Tail(pool)
    /\ UNCHANGED <<authorities, ocw>>

\* A block applies the pool's oldest transaction.
ApplyTransaction ==
    /\ pool # <<>>
    /\ update_sensors_data(Signed(Head(pool).signer), Head(pool).updated_data)
    /\ pool' = Tail(pool)
    /\ UNCHANGED ocw

Init ==
    /\ authorities = <<>>
    /\ sensors = [k \in Keys |-> <<>>]
    /\ emitted = <<>>
    /\ pool = <<>>
    /\ ocw = [w \in Workers |-> "idle"]
    /\ last = Call("genesis", NoOrigin, NoArg, Ok)
    /\ before = Storage

Next ==
    \/ UpdateSensorsData
    \/ AddAuthority
    \/ RemoveAuthority
    \/ OffchainWorkerStart
    \/ OffchainWorkerFinish
    \/ ApplyTransaction

Spec == Init /\ [][Next]_vars

\* try_wait(deadline) returns when the response arrives or, at the latest,
\* when its deadline of two seconds passes, and the code after it runs
\* straight to a return: a run that is fetching does finish.
FairSpec == Spec /\ WF_vars(OffchainWorkerFinish)

\* ------------------------------------------------------------------ claims

\* Membership in a registry value, stated on the sequence itself.
MemberOf(v, a) == \E i \in 1..Len(v) : v[i] = a

IsCall(c, op) == c.op = op

\* The key a record is stored under.
KeyOf(r) == <<r.id, r.type_>>

\* C1: an update_sensors_data call by a signed submitter who is not in the
\* authority registry when the call runs fails with NotAuthority and leaves
\* the sensor store exactly as it was, whatever the batch.
C1_NonAuthorityRejected ==
    ( /\ IsCall(last, "update_sensors_data")
      /\ last.origin.kind = "Signed"
      /\ ~MemberOf(before.authorities, last.origin.who) )
    => ( /\ last.result = NotAuthority
         /\ sensors = before.sensors )

C1_Witness ==
    /\ IsCall(last, "update_sensors_data")
    /\ last.origin.kind = "Signed"
    /\ ~MemberOf(before.authorities, last.origin.who)
    /\ last.result = NotAuthority
    /\ Len(last.arg) = MaxBatch
    /\ before.authorities # <<>>

\* C2: whenever the sensor store differs between two consecutive states, the
\* step is an update_sensors_data call whose submitter is in the authority
\* registry in the state the call runs in; no other operation, the off-chain
\* worker's fetch and parse included, changes the store.
C2_OnlyAuthorityMutatesStore ==
    sensors # before.sensors
    => ( /\ IsCall(last, "update_sensors_data")
         /\ last.origin.kind = "Signed"
         /\ MemberOf(before.authorities, last.origin.who) )

\* A batch the off-chain worker fetched, parsed and submitted has been
\* applied and changed the store.
C2_Witness ==
    /\ IsCall(last, "update_sensors_data")
    /\ last.result = Ok
    /\ \E i \in 1..Len(last.arg) : last.arg[i].type_ = Digital
    /\ before.sensors[<<2, Digital>>] = <<>>
    /\ sensors[<<2, Digital>>] # <<>>

\* C3: the registry never holds more than MaxAuthorities entries, and an
\* add_authority by root of a principal not yet present, issued when the
\* registry holds MaxAuthorities entries, fails with TooManyAuthorities (the
\* specification's CapacityExceeded) and leaves the registry unchanged.
C3_CapacityBound ==
    /\ Len(authorities) <= MaxAuthorities
    /\ ( ( /\ IsCall(last, "add_authority")
           /\ last.origin = Root
           /\ ~MemberOf(before.authorities, last.arg)
           /\ Len(before.authorities) = MaxAuthorities )
         => ( /\ last.result = TooManyAuthorities
              /\ authorities = before.authorities ) )

C3_Witness ==
    /\ IsCall(last, "add_authority")
    /\ last.origin = Root
    /\ last.result = TooManyAuthorities
    /\ ~MemberOf(before.authorities, last.arg)
    /\ Len(before.authorities) = MaxAuthorities

\* C4: starting from the empty registry, after any sequence of add_authority
\* and remove_authority calls the registry holds no principal twice.
C4_NoDuplicates ==
    \A i, j \in 1..Len(authorities) : i # j => authorities[i] # authorities[j]

\* A removal took the first of several entries, the last one moving into its
\* place.
C4_Witness ==
    /\ IsCall(last, "remove_authority")
    /\ last.result = Ok
    /\ Len(before.authorities) > 1
    /\ before.authorities[1] = last.arg
    /\ authorities[1] = before.authorities[Len(before.authorities)]

\* C5: for a principal P not in the registry and a registry below capacity,
\* add_authority(root, P) succeeds and is_authority(P) is then true; a
\* remove_authority(root, P) of a registered P succeeds and is_authority(P)
\* is then false; in both steps every other principal's membership is the
\* same before and after.
C5_AddRemoveMembership ==
    \A P \in AccountId :
        /\ ( ( /\ IsCall(last, "add_authority")
               /\ last.origin = Root
               /\ last.arg = P
               /\ ~MemberOf(before.authorities, P)
               /\ Len(before.authorities) < MaxAuthorities )
             => ( /\ last.result = Ok
                  /\ is_authority(P)
                  /\ \A Q \in AccountId \ {P} :
                       MemberOf(authorities, Q) <=> MemberOf(before.authorities, Q) ) )
        /\ ( ( /\ IsCall(last, "remove_authority")
               /\ last.origin = Root
               /\ last.arg = P
               /\ MemberOf(before.authorities, P) )
             => ( /\ last.result = Ok
                  /\ ~is_authority(P)
                  /\ \A Q \in AccountId \ {P} :
                       MemberOf(authorities, Q) <=> MemberOf(before.authorities, Q) ) )

\* A removal succeeded and left another principal registered.
C5_Witness ==
    /\ IsCall(last, "remove_authority")
    /\ last.origin = Root
    /\ last.result = Ok
    /\ MemberOf(before.authorities, last.arg)
    /\ ~MemberOf(authorities, last.arg)
    /\ authorities # <<>>

\* C6: add_authority and remove_authority called without root privilege, a
\* signed caller who is a registered authority included, fail with BadOrigin
\* (the specification's NotAuthorized), leave the registry unchanged and
\* deposit no event, whatever the membership of the principal and the
\* registry's length.
C6_RootOnly ==
    ( /\ (IsCall(last, "add_authority") \/ IsCall(last, "remove_authority"))
      /\ last.origin # Root )
    => ( /\ last.result = BadOrigin
         /\ authorities = before.authorities
         /\ emitted = <<>> )

\* A registered authority tried to add a registered principal to a full registry.
C6_Witness ==
    /\ IsCall(last, "add_authority")
    /\ last.origin.kind = "Signed"
    /\ MemberOf(before.authorities, last.origin.who)
    /\ MemberOf(before.authorities, last.arg)
    /\ Len(before.authorities) = MaxAuthorities
    /\ last.result = BadOrigin

\* C7: add_authority(root, P) for a P already in the registry fails with
\* AlreadyAuthority, leaves the registry unchanged and deposits no
\* AuthorityAdded event, also when the registry is at capacity.
C7_AlreadyAuthority ==
    ( /\ IsCall(last, "add_authority")
      /\ last.origin = Root
      /\ MemberOf(before.authorities, last.arg) )
    => ( /\ last.result = AlreadyAuthority
         /\ authorities = before.authorities
         /\ emitted = <<>> )

C7_Witness ==
    /\ IsCall(last, "add_authority")
    /\ last.origin = Root
    /\ MemberOf(before.authorities, last.arg)
    /\ Len(before.authorities) = MaxAuthorities
    /\ last.result = AlreadyAuthority

\* C8: remove_authority(root, P) for a P not in the registry fails with
\* NotAuthority, leaves the registry unchanged and deposits no event.
C8_RemoveAbsent ==
    ( /\ IsCall(last, "remove_authority")
      /\ last.origin = Root
      /\ ~MemberOf(before.authorities, last.arg) )
    => ( /\ last.result = NotAuthority
         /\ authorities = before.authorities
         /\ emitted = <<>> )

C8_Witness ==
    /\ IsCall(last, "remove_authority")
    /\ last.origin = Root
    /\ ~MemberOf(before.authorities, last.arg)
    /\ last.result = NotAuthority
    /\ before.authorities # <<>>

\* C9: every successful remove_authority(root, P) deposits exactly one
\* AuthorityRemoved{P} event, every successful add_authority(root, P) exactly
\* one AuthorityAdded{P} event, and an AuthorityAdded event is deposited only
\* by a successful add_authority.
C9_EventsMatchCalls ==
    /\ (IsCall(last, "remove_authority") /\ last.result = Ok)
         => emitted = <<AuthorityRemoved(last.arg)>>
    /\ (IsCall(last, "add_authority") /\ last.result = Ok)
         => emitted = <<AuthorityAdded(last.arg)>>
    /\ (\E i \in 1..Len(emitted) : emitted[i].name = "AuthorityAdded")
         => (IsCall(last, "add_authority") /\ last.result = Ok)

\* The index of the last record of the batch stored under key k, 0 if none.
LastWithKey(batch, k) ==
    IF \E i \in 1..Len(batch) : KeyOf(batch[i]) = k
    THEN CHOOSE i \in 1..Len(batch) :
             /\ KeyOf(batch[i]) = k
             /\ \A j \in (i + 1)..Len(batch) : KeyOf(batch[j]) # k
    ELSE 0

\* C10: after a batch is applied by a registered authority, the store holds
\* under every (id, kind) pair of the batch the last record of the batch with
\* that pair, and every other pair keeps the record it had or stays absent.
C10_LastWriteWins ==
    ( /\ IsCall(last, "update_sensors_data")
      /\ last.origin.kind = "Signed"
      /\ MemberOf(before.authorities, last.origin.who) )
    => ( /\ last.result = Ok
         /\ \A k \in Keys :
              LET i == LastWithKey(last.arg, k)
              IN  sensors[k] = IF i = 0 THEN before.sensors[k] ELSE <<last.arg[i]>> )

\* A batch with two different records for one pair was applied over a
\* stored record of that pair, while another pair held a record.
C10_Witness ==
    /\ IsCall(last, "update_sensors_data")
    /\ last.result = Ok
    /\ Len(last.arg) = 2
    /\ KeyOf(last.arg[1]) = KeyOf(last.arg[2])
    /\ last.arg[1] # last.arg[2]
    /\ before.sensors[KeyOf(last.arg[1])] = <<last.arg[1]>>
    /\ sensors[KeyOf(last.arg[1])] = <<last.arg[2]>>
    /\ before.sensors[<<2, Digital>>] # <<>>

\* The store already holds what the batch writes: under every pair of the
\* batch, the batch's last record for that pair.
AlreadyApplied(store, batch) ==
    \A k \in Keys :
        LastWithKey(batch, k) # 0 => store[k] = <<batch[LastWithKey(batch, k)]>>

\* C11: applying a batch twice in a row by a registered authority yields the
\* same store as applying it once, also when the batch holds several records
\* for one (id, kind) pair: applying the batch again to the store it produced
\* changes nothing, and an application that finds the batch already applied
\* leaves the store as it found it.
C11_ApplyIdempotent ==
    ( /\ IsCall(last, "update_sensors_data")
      /\ last.origin.kind = "Signed"
      /\ MemberOf(before.authorities, last.origin.who) )
    => ( /\ last.result = Ok
         /\ apply_batch(sensors, last.arg) = sensors
         /\ AlreadyApplied(before.sensors, last.arg) => sensors = before.sensors )

\* A batch with two different records for one pair was applied by an
\* authority to a store that the same batch had already been applied to.
C11_Witness ==
    /\ IsCall(last, "update_sensors_data")
    /\ last.result = Ok
    /\ Len(last.arg) = 2
    /\ KeyOf(last.arg[1]) = KeyOf(last.arg[2])
    /\ last.arg[1] # last.arg[2]
    /\ AlreadyApplied(before.sensors, last.arg)
    /\ sensors[KeyOf(last.arg[2])] = <<last.arg[2]>>

\* C12: every record applied by an authorized update_sensors_data deposits a
\* SensorDataAdded event carrying that record's id and kind, one per record
\* in batch order.
C12_SensorDataAddedPerUpsert ==
    (IsCall(last, "update_sensors_data") /\ last.result = Ok)
    => emitted = [i \in 1..Len(last.arg) |->
                     SensorDataAdded(last.arg[i].id, last.arg[i].type_)]

\* The value string is neither "true" nor "false" nor an unsigned integer.
UnparseableValue(s) ==
    /\ s # <<"t", "r", "u", "e">>
    /\ s # <<"f", "a", "l", "s", "e">>
    /\ parse_u32(s) = Err

\* The objects of the body the latest off-chain worker run was handed.
LastItems == last.arg.reply.body.items

\* C13: a record whose value string is neither "true" nor "false" nor an
\* unsigned integer fails to parse and the whole batch is rejected: the
\* parser yields no value for it, the run does not end Ok and nothing is
\* handed to the pool.
C13_UnparseableValueRejected ==
    ( /\ IsCall(last, "offchain_worker")
      /\ reaches_parser(last.arg.reply)
      /\ last.arg.reply.body.json
      /\ \E i \in 1..Len(LastItems) : UnparseableValue(LastItems[i].value) )
    => ( /\ last.result # Ok
         /\ pool = before.pool
         /\ \A i \in 1..Len(LastItems) :
              UnparseableValue(LastItems[i].value)
                  => de_string_to_sensor_value(LastItems[i].value) = Err )

\* Strings that name no kind: unknown, differently cased, padded, empty.
NotKindNames == {"Foo", "temperature", "HUMIDITY", "digital", " Pressure", ""}

\* The string names the kind t.
Names(s, t) == s = variant_name(t)

\* C14: decoding a kind string maps each of the four names to the kind of
\* that name, so that writing a kind and reading it back gives the kind, and
\* any other string is a parse error: an off-chain worker run handed a body
\* with such a string does not end Ok and hands nothing to the pool, and a
\* run that ends Ok hands over records whose kinds are the ones named.
C14_SensorTypeDecoding ==
    /\ \A t \in SensorType : de_string_to_sensor_type(variant_name(t)) = Some(t)
    /\ \A s \in NotKindNames : de_string_to_sensor_type(s) = Err
    /\ ( /\ IsCall(last, "offchain_worker")
         /\ reaches_parser(last.arg.reply)
         /\ last.arg.reply.body.json )
       => ( /\ (\E i \in 1..Len(LastItems) :
                   \A t \in SensorType : ~Names(LastItems[i].type, t))
                => (last.result # Ok /\ pool = before.pool)
            /\ last.result = Ok
                => ( /\ pool = Append(before.pool, pool[Len(pool)])
                     /\ Len(pool[Len(pool)].updated_data) = Len(LastItems)
                     /\ \A i \in 1..Len(LastItems) :
                          Names(LastItems[i].type, pool[Len(pool)].updated_data[i].type_) ) )

\* A run was handed a body naming the kind "Foo" with a signer at hand and a
\* pool ready to take a transaction, and handed nothing over.
C14_Witness ==
    /\ IsCall(last, "offchain_worker")
    /\ reaches_parser(last.arg.reply)
    /\ Len(LastItems) = 1
    /\ LastItems[1].type = "Foo"
    /\ LastItems[1].typeKey = "type_"
    /\ last.origin = Signed("alice")
    /\ last.arg.accepted
    /\ before.pool = <<>>
    /\ last.result = DeadlineReached
    /\ pool = <<>>

\* C15: an off-chain worker run whose fetch returns a status other than 200
\* ends with the error the code keeps for an unexpected status
\* (http::Error::Unknown), whatever the body, the keystore and the pool are;
\* it hands nothing to the pool and leaves the store and the registry as
\* they were.
C15_UnexpectedStatus ==
    ( /\ IsCall(last, "offchain_worker")
      /\ last.arg.reply.outcome = "Response"
      /\ last.arg.reply.code # 200 )
    => ( /\ last.result = Unknown
         /\ pool = before.pool
         /\ sensors = before.sensors
         /\ authorities = before.authorities )

\* A run got status 500 with a body that would parse, a signer at hand, a
\* registered authority and a pool ready to take a transaction.
C15_Witness ==
    /\ IsCall(last, "offchain_worker")
    /\ last.arg.reply = HttpResponse(500, GoodBody)
    /\ last.origin = Signed("alice")
    /\ last.arg.accepted
    /\ MemberOf(authorities, "alice")
    /\ before.pool = <<>>
    /\ pool = <<>>
    /\ last.result = Unknown

\* C16: an off-chain worker run whose response body fails to parse ends with
\* the result DeserializeError, which is neither of the transport results
\* IoError and DeadlineReached nor the result of a run that found no signer;
\* it hands nothing to the pool and changes neither the store nor the
\* registry.
C16_DeserializeError ==
    ( /\ IsCall(last, "offchain_worker")
      /\ reaches_parser(last.arg.reply)
      /\ from_slice(last.arg.reply.body) = Err )
    => ( /\ last.result = DeserializeError
         /\ last.result \notin {IoError, DeadlineReached}
         /\ last.result # get_sensors_data_result(HttpResponse(200, GoodBody), NoAccount, FALSE)
         /\ pool = before.pool
         /\ sensors = before.sensors
         /\ authorities = before.authorities )

\* C17: from an empty store, a run whose fetch returns 200 with the body
\* [{"id":1,"type":"Temperature","geolocation":{"lat":10,"lon":20},
\* "value":"42","timestamp":1000}], with a registered authority as signer and
\* a pool that takes the transaction, ends Ok having handed over the one
\* record (1, Temperature, Number(42)), and the store holds exactly that
\* record once the transaction is applied.
C17_EndToEnd ==
    /\ ( /\ IsCall(last, "offchain_worker")
         /\ last.arg.reply = HttpResponse(200, TypeKeyBody)
         /\ last.origin.kind = "Signed"
         /\ MemberOf(authorities, last.origin.who)
         /\ last.arg.accepted
         /\ Len(before.pool) < MaxPool
         /\ \A k \in Keys : sensors[k] = <<>> )
       => ( /\ last.result = Ok
            /\ pool = Append(before.pool,
                             Transaction(last.origin.who,
                                         <<SensorData(1, Temperature, Geolocation(10, 20),
                                                      Number(42), 1000)>>, TRUE)) )
    /\ ( /\ IsCall(last, "update_sensors_data")
         /\ before.pool # <<>>
         /\ pool = Tail(before.pool)
         /\ last.result = Ok
         /\ last.arg = <<SensorData(1, Temperature, Geolocation(10, 20), Number(42), 1000)>>
         /\ \A k \in Keys : before.sensors[k] = <<>> )
       => \A k \in Keys :
              sensors[k] = IF k = <<1, Temperature>> THEN <<last.arg[1]>> ELSE <<>>

\* The step just taken began a run of worker w: request.send() went out.
Began(w) == before.ocw[w] = "idle" /\ ocw[w] = "fetching"

\* The step just taken ended a run of worker w.
Ended(w) == before.ocw[w] = "fetching" /\ ocw[w] = "idle"

\* Within a run: the request is sent by the trigger and by nothing else,
\* the return of get_sensors_data ends the run whatever its result, and the
\* run hands the pool at most one transaction, and none when it fails.
OneFetchOneSubmission ==
    /\ \A w \in Workers :
          /\ Began(w) => IsCall(last, "offchain_worker_start")
          /\ Ended(w) => IsCall(last, "offchain_worker")
          /\ IsCall(last, "offchain_worker") => ocw[w] = "idle"
    /\ IsCall(last, "offchain_worker")
         => ( /\ \E w \in Workers : Ended(w)
              /\ IF last.result = Ok
                 THEN Len(pool) = Len(before.pool) + 1 /\ SubSeq(pool, 1, Len(before.pool)) = before.pool
                 ELSE pool = before.pool )
    /\ IsCall(last, "offchain_worker_start") => pool = before.pool

C19_NoOverlappingCycles ==
    \A w \in Workers :
        Began(w) => ( /\ \A v \in Workers \ {w} : before.ocw[v] = "idle"
                      /\ before.pool = <<>> )

\* C20: add_authority and remove_authority, whether they succeed or fail,
\* leave the sensor store as it was; update_sensors_data, whether it succeeds
\* or fails, leaves the authority registry as it was.
C20_Frame ==
    /\ (IsCall(last, "add_authority") \/ IsCall(last, "remove_authority"))
         => sensors = before.sensors
    /\ IsCall(last, "update_sensors_data") => authorities = before.authorities

\* An authority was removed while the store held a record, and the store
\* kept it.
C20_Witness ==
    /\ IsCall(last, "remove_authority")
    /\ last.result = Ok
    /\ authorities # before.authorities
    /\ \E k \in Keys : sensors[k] # <<>>
    /\ sensors = before.sensors

\* C21: the set of (id, kind) pairs present in the sensor store never
\* shrinks: a pair that held a record before a step, whatever the step is
\* (a removal of the authority that wrote it included), holds a record after
\* it.
C21_KeysNeverShrink ==
    \A k \in Keys : before.sensors[k] # <<>> => sensors[k] # <<>>

\* The last authority was removed while the store held records, so whoever
\* wrote them is no authority any more, and the records are still there.
C21_Witness ==
    /\ IsCall(last, "remove_authority")
    /\ last.result = Ok
    /\ before.authorities = <<last.arg>>
    /\ authorities = <<>>
    /\ \E k \in Keys : before.sensors[k] # <<>> /\ sensors[k] = before.sensors[k]

\* The step just taken applied the pool's oldest transaction.
AppliedFromPool ==
    /\ IsCall(last, "update_sensors_data")
    /\ before.pool # <<>>
    /\ pool = Tail(before.pool)
    /\ last.origin = Signed(Head(before.pool).signer)
    /\ last.arg = Head(before.pool).updated_data

\* C22: authorization is decided when a batch is applied, not when it was
\* signed and submitted: a batch whose signer was a registered authority at
\* signing and is none when the batch is applied is rejected with
\* NotAuthority and stores nothing, and a batch whose signer was no authority
\* at signing and is one when the batch is applied is accepted and stored.
C22_AuthorizedAtApplyTime ==
    AppliedFromPool
    => LET tx == Head(before.pool)
       IN  /\ (tx.authorized /\ ~MemberOf(before.authorities, tx.signer))
                => (last.result = NotAuthority /\ sensors = before.sensors)
           /\ (~tx.authorized /\ MemberOf(before.authorities, tx.signer))
                => ( /\ last.result = Ok
                     /\ \A i \in 1..Len(tx.updated_data) :
                          sensors[KeyOf(tx.updated_data[i])] # <<>> )

\* A batch signed by a registered authority was applied after that authority
\* had been removed, and was rejected.
C22_Witness ==
    /\ AppliedFromPool
    /\ Head(before.pool).authorized
    /\ ~MemberOf(before.authorities, Head(before.pool).signer)
    /\ Head(before.pool).updated_data # <<>>
    /\ last.result = NotAuthority
    /\ sensors = before.sensors

\* A batch signed by an account that was no authority yet was applied after
\* the account had been added, and was stored.
C22_WitnessConverse ==
    /\ AppliedFromPool
    /\ ~Head(before.pool).authorized
    /\ MemberOf(before.authorities, Head(before.pool).signer)
    /\ last.result = Ok
    /\ sensors # before.sensors

\* C23: the store keeps the record applied last, whatever the timestamps
\* say: an authorized write whose last record for a pair carries a smaller
\* timestamp than the record stored under that pair replaces it, so that the
\* stored timestamp goes down.
C23_TimestampIgnored ==
    (IsCall(last, "update_sensors_data") /\ last.result = Ok)
    => \A k \in Keys :
           LET i == LastWithKey(last.arg, k)
           IN  ( /\ i # 0
                 /\ before.sensors[k] # <<>>
                 /\ last.arg[i].timestamp < before.sensors[k][1].timestamp )
               => ( /\ sensors[k] = <<last.arg[i]>>
                    /\ sensors[k][1].timestamp < before.sensors[k][1].timestamp )

\* The record with timestamp 1000 was stored and a write of a record with
\* timestamp 999 for the same pair replaced it.
C23_Witness ==
    /\ IsCall(last, "update_sensors_data")
    /\ last.result = Ok
    /\ Len(last.arg) = 1
    /\ before.sensors[KeyOf(last.arg[1])] # <<>>
    /\ before.sensors[KeyOf(last.arg[1])][1].timestamp = 1000
    /\ last.arg[1].timestamp = 999
    /\ sensors[KeyOf(last.arg[1])] = <<last.arg[1]>>

\* C24: in every reachable state each record the sensor store holds under a
\* pair (id, kind) has that id in its id field and that kind in its type_
\* field.
C24_RecordMatchesKey ==
    \A k \in Keys :
        sensors[k] # <<>> => (sensors[k][1].id = k[1] /\ sensors[k][1].type_ = k[2])

\* The store holds records under pairs that differ in id and in kind.
C24_Witness ==
    /\ sensors[<<1, Temperature>>] # <<>>
    /\ sensors[<<2, Digital>>] # <<>>
    /\ sensors[<<1, Humidity>>] # <<>>
    /\ IsCall(last, "update_sensors_data")
    /\ last.result = Ok
    /\ sensors # before.sensors

====
